---------------------------- MODULE Spec2Model ----------------------------
(***************************************************************************)
(* A model of the Sawtooth concurrency limiter                             *)
(* (src/src/sawtooth/sawtooth.py): the validated configuration, the       *)
(* limiter's state (_concurrency, _sshthresh, _flying, _ignored,           *)
(* _waiters), the coroutine acquire, release with its increase / reduce    *)
(* controller and waiter promotion, and the scoped guard resource().       *)
(*                                                                         *)
(* The event loop is single threaded: every handler runs atomically up to  *)
(* its next await, so acquire (up to `await fut`), the wake-up after the   *)
(* await, and release are one action each.                                 *)
(*                                                                         *)
(* Numbers.  _concurrency starts as an int and is only ever assigned the   *)
(* result of math.ceil or math.floor, so it is an integer in every state.  *)
(* The two real-valued intermediate results, concurrency + step_size /     *)
(* concurrency and concurrency * backoff_factor, are computed exactly as   *)
(* fractions: backoff_factor is the pair <<num, den>>.  For the factors    *)
(* used here (0.5 and 0.95) and every concurrency up to 2000 the float     *)
(* product floors to the same integer as the exact fraction.               *)
(***************************************************************************)
EXTENDS Integers, Sequences, FiniteSets, TLC

VARIABLES
    config,       \* Sawtooth.config, fixed at construction
    error,        \* the call Sawtooth(resource, config): not made yet, the
                  \* message of the ValueError it raised, or "ok"
    concurrency,  \* Sawtooth._concurrency
    sshthresh,    \* Sawtooth._sshthresh
    flying,       \* Sawtooth._flying
    ignored,      \* Sawtooth._ignored
    waiters,      \* Sawtooth._waiters: the queued request ids, head first;
                  \* the future of the pair (request_id, fut) is fut[request_id]
    fut,          \* state of the future created by acquire(request_id)
    pc,           \* position of the acquire coroutine called with each id
    exempt,       \* history: ids that were in _flying when some reduction
                  \* happened and have not been released since
    gpc,          \* position of each resource() context
    release_log,  \* history: backpressure arguments of the release calls
                  \* made by each resource() context
    outcome,      \* what leaving each resource() context gave its caller
    tasks         \* the test harness' acquire tasks (tests, `coros`)

limiter_vars ==
    <<config, error, concurrency, sshthresh, flying, ignored, waiters, exempt>>
guard_vars == <<gpc, release_log, outcome>>
vars == <<config, error, concurrency, sshthresh, flying, ignored, waiters, fut, pc,
          exempt, gpc, release_log, outcome, tasks>>

---------------------------------------------------------------------------
(* Bounds of the model *)

\* number of distinct request ids in use
NumIds == 3
\* largest max_concurrency a configuration is drawn with
MaxMaxConcurrency == 5
\* largest min_concurrency a configuration is drawn with
MaxMinConcurrency == 2
\* largest step_size a configuration is drawn with
MaxStepSize == 2
\* largest max_concurrency of the configurations of SpecLive
LiveMaxConcurrency == 3

Ids == 1..NumIds

---------------------------------------------------------------------------
(* Arithmetic *)

Max(a, b) == IF a >= b THEN a ELSE b
Min(a, b) == IF a <= b THEN a ELSE b

\* math.floor(num / den) and math.ceil(num / den) for den > 0
Floor(num, den) == num \div den
Ceil(num, den) == -((-num) \div den)

SeqToSet(s) == {s[i] : i \in DOMAIN s}

---------------------------------------------------------------------------
(* SawtoothConfig and Sawtooth.__init__ *)

\* starting_concurrency: Optional[int] is <<>> (None) or <<n>>
None == <<>>

\* the backoff factors of test_decrease_concurrency (0.5) and of the default
\* (0.95) as exact fractions, and the two rejected ones of
\* test_init_invalid_backoff
ValidBackoffs == {<<1, 2>>, <<19, 20>>}
InvalidBackoffs == {<<0, 1>>, <<1, 1>>}

SawtoothConfig(max, min, step, backoff, starting) ==
    [max_concurrency |-> max, min_concurrency |-> min, step_size |-> step,
     backoff_factor |-> backoff, starting_concurrency |-> starting]

\* mutant: the middle of [min_concurrency, max_concurrency] as the default
starting_concurrency_midpoint(cfg) ==
    IF cfg.starting_concurrency # None
    THEN cfg.starting_concurrency[1]
    ELSE Floor(cfg.max_concurrency + cfg.min_concurrency, 2)

\* lines 45-51
starting_concurrency(cfg) ==
    IF cfg.starting_concurrency # None
    THEN cfg.starting_concurrency[1]
    ELSE Floor(cfg.max_concurrency - cfg.min_concurrency, 2)

\* the messages of the four ValueErrors, lines 57, 61, 65 and 73
StartingError ==
    "Starting concurrency needs to be between minimum and maximum concurrency"
MinimumError == "Minimum concurrency needs to be greater than 0"
MinimumMaximumError ==
    "Minimum concurrency needs greater than maximum concurrency"
BackoffError == "Backoff must have a value between 0 and 1 (exclusive)"

\* mutant: `<` instead of `<=` in the test of min_concurrency, line 60
init_error_min_zero(cfg) ==
    IF \/ starting_concurrency(cfg) > cfg.max_concurrency
       \/ starting_concurrency(cfg) < cfg.min_concurrency
    THEN StartingError
    ELSE IF cfg.min_concurrency < 0
    THEN MinimumError
    ELSE IF cfg.min_concurrency >= cfg.max_concurrency
    THEN MinimumMaximumError
    ELSE IF \/ cfg.backoff_factor[1] >= cfg.backoff_factor[2]
            \/ cfg.backoff_factor[1] <= 0
    THEN BackoffError
    ELSE "ok"

\* mutant: the test of min_concurrency comes before the test of the
\* starting concurrency
init_error_reordered(cfg) ==
    IF cfg.min_concurrency <= 0
    THEN MinimumError
    ELSE IF \/ starting_concurrency(cfg) > cfg.max_concurrency
            \/ starting_concurrency(cfg) < cfg.min_concurrency
    THEN StartingError
    ELSE IF cfg.min_concurrency >= cfg.max_concurrency
    THEN MinimumMaximumError
    ELSE IF \/ cfg.backoff_factor[1] >= cfg.backoff_factor[2]
            \/ cfg.backoff_factor[1] <= 0
    THEN BackoffError
    ELSE "ok"

\* lines 52-74: the ValueError raised by __init__, or "ok"
init_error(cfg) ==
    IF \/ starting_concurrency(cfg) > cfg.max_concurrency
       \/ starting_concurrency(cfg) < cfg.min_concurrency
    THEN StartingError
    ELSE IF cfg.min_concurrency <= 0
    THEN MinimumError
    ELSE IF cfg.min_concurrency >= cfg.max_concurrency
    THEN MinimumMaximumError
    ELSE IF \/ cfg.backoff_factor[1] >= cfg.backoff_factor[2]
            \/ cfg.backoff_factor[1] <= 0
    THEN BackoffError
    ELSE "ok"

\* the values starting_concurrency is drawn from: omitted, the two ends of
\* [min_concurrency, max_concurrency], one beyond the upper end, and the -1
\* of test_init_invalid_starting_concurrency; the values in between are
\* reached by the default and by the controller
StartingChoices(max, min) == {None, <<-1>>, <<min>>, <<max>>, <<max + 1>>}

\* the configurations a limiter is constructed with
Configs ==
    UNION {{SawtoothConfig(max, min, step, backoff, starting) :
                step \in 1..MaxStepSize,
                backoff \in ValidBackoffs \cup InvalidBackoffs,
                starting \in StartingChoices(max, min)} :
           max \in 1..MaxMaxConcurrency, min \in 0..MaxMinConcurrency}

\* lines 76-81: the state __init__ leaves when it raises nothing
constructed(cfg, ids) ==
    /\ init_error(cfg) = "ok"
    /\ config = cfg
    /\ error = "ok"
    /\ flying = {}
    /\ ignored = {}
    /\ waiters = <<>>
    /\ concurrency = starting_concurrency(cfg)
    /\ sshthresh = cfg.max_concurrency
    /\ fut = [i \in ids |-> "none"]
    /\ pc = [i \in ids |-> "idle"]
    /\ exempt = {}

\* the attributes of lines 76-81 on an object whose __init__ has not
\* reached them
Unset == "unset"

\* Sawtooth(resource, cfg) is about to be called
init_called(cfg, ids) ==
    /\ config = cfg
    /\ error = "not called"
    /\ flying = Unset
    /\ ignored = Unset
    /\ waiters = Unset
    /\ concurrency = Unset
    /\ sshthresh = Unset
    /\ fut = [i \in ids |-> "none"]
    /\ pc = [i \in ids |-> "idle"]
    /\ exempt = {}

\* __init__, lines 43-81: it raises the ValueError of init_error before line
\* 76, or runs lines 76-81
init ==
    /\ error = "not called"
    /\ error' = init_error(config)
    /\ IF init_error(config) = "ok"
       THEN /\ flying' = {}
            /\ ignored' = {}
            /\ waiters' = <<>>
            /\ concurrency' = starting_concurrency(config)
            /\ sshthresh' = config.max_concurrency
       ELSE UNCHANGED <<flying, ignored, waiters, concurrency, sshthresh>>
    /\ UNCHANGED <<config, fut, pc, exempt>>

---------------------------------------------------------------------------
(* The controller *)

\* mutant: pop() instead of popleft(), the newest waiter first
release_waiters_lifo(c, fl, ws, futs) ==
    LET available_concurrency == Max(0, c - Cardinality(fl))
        num_to_release == Min(Len(ws), available_concurrency)
    IN  [popped |-> [i \in 1..num_to_release |-> ws[Len(ws) + 1 - i]],
         waiters |-> SubSeq(ws, 1, Len(ws) - num_to_release),
         raised |-> FALSE]

\* mutant: release never promotes a waiter
release_waiters_none(c, fl, ws, futs) ==
    [popped |-> <<>>, waiters |-> ws, raised |-> FALSE]

\* mutant: one slot too few is counted as available
release_waiters_short(c, fl, ws, futs) ==
    LET available_concurrency == Max(0, c - Cardinality(fl) - 1)
        num_to_release == Min(Len(ws), available_concurrency)
        failing == {i \in 1..num_to_release : futs[ws[i]] = "cancelled"}
        last == IF failing = {} THEN num_to_release
                ELSE CHOOSE i \in failing : \A j \in failing : i <= j
    IN  [popped |-> SubSeq(ws, 1, last),
         waiters |-> SubSeq(ws, last + 1, Len(ws)),
         raised |-> failing # {}]

\* mutant: at most one waiter is promoted by a call
release_waiters_one(c, fl, ws, futs) ==
    LET available_concurrency == Max(0, c - Cardinality(fl))
        num_to_release == Min(1, Min(Len(ws), available_concurrency))
        failing == {i \in 1..num_to_release : futs[ws[i]] = "cancelled"}
        last == IF failing = {} THEN num_to_release
                ELSE CHOOSE i \in failing : \A j \in failing : i <= j
    IN  [popped |-> SubSeq(ws, 1, last),
         waiters |-> SubSeq(ws, last + 1, Len(ws)),
         raised |-> failing # {}]

\* mutant: one slot too many is counted as available
release_waiters_off_by_one(c, fl, ws, futs) ==
    LET available_concurrency == Max(0, c - Cardinality(fl) + 1)
        num_to_release == Min(Len(ws), available_concurrency)
        failing == {i \in 1..num_to_release : futs[ws[i]] = "cancelled"}
        last == IF failing = {} THEN num_to_release
                ELSE CHOOSE i \in failing : \A j \in failing : i <= j
    IN  [popped |-> SubSeq(ws, 1, last),
         waiters |-> SubSeq(ws, last + 1, Len(ws)),
         raised |-> failing # {}]

\* _release_waiters, lines 85-91: the requests popped from the left of the
\* queue, in the order they are popped, and the queue that is left.  Each
\* popped request is added to _flying before fut.set_result(True) is called
\* (lines 90-91); set_result raises asyncio.InvalidStateError on a future
\* that was cancelled, which ends the loop and the call after that request.
release_waiters(c, fl, ws, futs) ==
    LET available_concurrency == Max(0, c - Cardinality(fl))
        num_to_release == Min(Len(ws), available_concurrency)
        failing == {i \in 1..num_to_release : futs[ws[i]] = "cancelled"}
        last == IF failing = {} THEN num_to_release
                ELSE CHOOSE i \in failing : \A j \in failing : i <= j
    IN  [popped |-> SubSeq(ws, 1, last),
         waiters |-> SubSeq(ws, last + 1, Len(ws)),
         raised |-> failing # {}]

\* mutant: the result is not capped by max_concurrency
maybe_increase_concurrency_unclamped(c, fl, ssh, cfg) ==
    LET step_size == cfg.step_size
        num_flying == Cardinality(fl)
    IN  IF num_flying < ssh
        THEN Max(c, Min(num_flying + step_size + 1, c + step_size))
        ELSE Ceil(Max(c * c, Min((num_flying + step_size + 1) * c,
                                 c * c + step_size)), c)

\* mutant: the slow-start branch is taken whatever the threshold
maybe_increase_concurrency_slow_start(c, fl, ssh, cfg) ==
    LET step_size == cfg.step_size
        num_flying == Cardinality(fl)
    IN  Min(Max(c, Min(num_flying + step_size + 1, c + step_size)),
            cfg.max_concurrency)

\* mutant: num_flying + step_size instead of num_flying + step_size + 1
maybe_increase_concurrency_short(c, fl, ssh, cfg) ==
    LET step_size == cfg.step_size
        num_flying == Cardinality(fl)
        new_concurrency ==
            IF num_flying < ssh
            THEN Max(c, Min(num_flying + step_size, c + step_size))
            ELSE Ceil(Max(c * c, Min((num_flying + step_size) * c,
                                     c * c + step_size)), c)
    IN  Min(new_concurrency, cfg.max_concurrency)

\* _maybe_increase_concurrency, lines 95-116, as the new _concurrency
maybe_increase_concurrency(c, fl, ssh, cfg) ==
    LET step_size == cfg.step_size
        num_flying == Cardinality(fl)
        new_concurrency ==
            IF num_flying < ssh
            THEN Max(c, Min(num_flying + step_size + 1, c + step_size))
            \* the fraction c + step_size / c = (c * c + step_size) / c
            ELSE Ceil(Max(c * c, Min((num_flying + step_size + 1) * c,
                                     c * c + step_size)), c)
    IN  Min(new_concurrency, cfg.max_concurrency)

\* mutant: math.ceil instead of math.floor
maybe_reduce_concurrency_ceil(c, cfg) ==
    LET num == cfg.backoff_factor[1]
        den == cfg.backoff_factor[2]
    IN  Ceil(Max(cfg.min_concurrency * den, c * num), den)

\* mutant: min instead of max around min_concurrency and the product
maybe_reduce_concurrency_min(c, cfg) ==
    LET num == cfg.backoff_factor[1]
        den == cfg.backoff_factor[2]
    IN  Floor(Min(cfg.min_concurrency * den, c * num), den)

\* mutant: the product is not floored below at min_concurrency
maybe_reduce_concurrency_unclamped(c, cfg) ==
    LET num == cfg.backoff_factor[1]
        den == cfg.backoff_factor[2]
    IN  Floor(c * num, den)

\* _maybe_reduce_concurrency, lines 120-126, as the new _sshthresh
maybe_reduce_concurrency(c, cfg) ==
    LET num == cfg.backoff_factor[1]
        den == cfg.backoff_factor[2]
    IN  Floor(Max(cfg.min_concurrency * den, c * num), den)

\* mutant: _ignored is cleared instead of set to _flying
reduced_ignored_cleared(fl) == {}

\* _maybe_reduce_concurrency, line 127, as the new _ignored
reduced_ignored(fl) == fl

---------------------------------------------------------------------------
(* acquire and release *)

\* mutant: `>` instead of `>=` in the admission test
acquire_off_by_one(request_id) ==
    /\ request_id \notin flying
    /\ request_id \notin SeqToSet(waiters)
    /\ pc[request_id] = "idle"
    /\ IF Cardinality(flying) > concurrency
       THEN /\ fut' = [fut EXCEPT ![request_id] = "pending"]
            /\ waiters' = Append(waiters, request_id)
            /\ pc' = [pc EXCEPT ![request_id] = "await"]
            /\ UNCHANGED flying
       ELSE /\ flying' = flying \cup {request_id}
            /\ UNCHANGED <<fut, waiters, pc>>
    /\ UNCHANGED <<config, error, concurrency, sshthresh, ignored, exempt>>

\* acquire(request_id) up to its return or its `await fut`, lines 137-143.
\* Precondition (docstring): request_id is unique among outstanding calls.
acquire(request_id) ==
    /\ request_id \notin flying
    /\ request_id \notin SeqToSet(waiters)
    /\ pc[request_id] = "idle"
    /\ IF Cardinality(flying) >= concurrency
       THEN /\ fut' = [fut EXCEPT ![request_id] = "pending"]
            /\ waiters' = Append(waiters, request_id)
            /\ pc' = [pc EXCEPT ![request_id] = "await"]
            /\ UNCHANGED flying
       ELSE /\ flying' = flying \cup {request_id}
            /\ UNCHANGED <<fut, waiters, pc>>
    /\ UNCHANGED <<config, error, concurrency, sshthresh, ignored, exempt>>

\* acquire resumes after `await fut` and returns the resource, lines 140, 143
resume(request_id) ==
    /\ pc[request_id] = "await"
    /\ fut[request_id] = "done"
    /\ pc' = [pc EXCEPT ![request_id] = "idle"]
    /\ fut' = [fut EXCEPT ![request_id] = "none"]
    /\ UNCHANGED limiter_vars

\* a caller suspended in acquire is cancelled (Task.cancel): the future it
\* awaits at line 140 is cancelled and CancelledError leaves acquire; the
\* pair (request_id, fut) stays in _waiters, no code removes it
cancelled_futures(request_id) == [fut EXCEPT ![request_id] = "cancelled"]

\* Task.cancel() of a caller suspended at line 140 of acquire
cancel(request_id) ==
    /\ pc[request_id] = "await"
    /\ fut[request_id] = "pending"
    /\ fut' = cancelled_futures(request_id)
    /\ pc' = [pc EXCEPT ![request_id] = "idle"]
    /\ UNCHANGED limiter_vars

\* release(request_id, backpressure), lines 154-163, called when the futures
\* are in state futs: the values it leaves, and whether it raised
release_result(request_id, backpressure, futs) ==
    LET was_flying == request_id \in flying
        flying1 == flying \ {request_id}
        reduce == was_flying /\ backpressure /\ request_id \notin ignored
        increase == was_flying /\ ~backpressure
        sshthresh1 ==
            IF reduce THEN maybe_reduce_concurrency(concurrency, config)
            ELSE sshthresh
        concurrency1 ==
            IF reduce THEN sshthresh1
            ELSE IF increase
            THEN maybe_increase_concurrency(concurrency, flying1, sshthresh, config)
            ELSE concurrency
        ignored1 == IF reduce THEN reduced_ignored(flying1) ELSE ignored
        promotion == release_waiters(concurrency1, flying1, waiters, futs)
        popped == SeqToSet(promotion.popped)
    IN  [sshthresh |-> sshthresh1,
         concurrency |-> concurrency1,
         ignored |-> ignored1 \ {request_id},
         flying |-> flying1 \cup popped,
         waiters |-> promotion.waiters,
         \* a popped future gets its result; a cancelled one is dropped
         fut |-> [i \in DOMAIN futs |->
                    IF i \notin popped THEN futs[i]
                    ELSE IF futs[i] = "pending" THEN "done" ELSE "none"],
         exempt |-> IF reduce THEN (exempt \cup flying1) \ {request_id}
                    ELSE IF was_flying THEN exempt \ {request_id}
                    ELSE exempt,
         raised |-> promotion.raised]

\* the state a call release(request_id, backpressure) leaves
released(request_id, backpressure, futs) ==
    \E r \in {release_result(request_id, backpressure, futs)} :
        /\ sshthresh' = r.sshthresh
        /\ concurrency' = r.concurrency
        /\ ignored' = r.ignored
        /\ flying' = r.flying
        /\ waiters' = r.waiters
        /\ fut' = r.fut
        /\ exempt' = r.exempt
        /\ UNCHANGED <<config, error>>

\* release(request_id, backpressure), lines 145-163
release(request_id, backpressure) ==
    /\ released(request_id, backpressure, fut)
    /\ UNCHANGED pc

---------------------------------------------------------------------------
(* The scoped guard resource(), lines 165-187 *)

\* the ways the body of `async with sawtooth.resource()` is left: it ends,
\* it raises SawtoothBackpressure, it raises anything else (CancelledError
\* included)
ExitKinds == {"normal", "backpressure", "exception"}

\* lines 181-185: backpressure is True when the except clause caught the
\* exception thrown into the generator at its yield
guard_backpressure(how) == how = "backpressure"

\* what the caller of the `async with` statement sees: the exception that
\* release raised in the finally clause replaces whatever was in flight;
\* otherwise SawtoothBackpressure was handled (the generator ends and
\* __aexit__ suppresses it) and any other exception is re-raised
guard_raised(how, release_raised) ==
    IF release_raised THEN "InvalidStateError"
    ELSE IF how = "exception" THEN "exception"
    ELSE "nothing"

\* lines 180-183: a fresh request id (uuid4) and the call of acquire, up to
\* the yield or to the `await fut` inside acquire
resource_enter(g) ==
    /\ gpc[g] = "out"
    /\ acquire(g)
    /\ gpc' = [gpc EXCEPT ![g] = IF Cardinality(flying) < concurrency
                                 THEN "scope" ELSE "acquire"]
    /\ UNCHANGED <<release_log, outcome>>

\* line 183: acquire returns after its await and the body is entered
resource_resume(g) ==
    /\ gpc[g] = "acquire"
    /\ resume(g)
    /\ gpc' = [gpc EXCEPT ![g] = "scope"]
    /\ UNCHANGED <<release_log, outcome>>

\* lines 184-187: the body is left; except, then finally with release
resource_exit(g, how) ==
    /\ gpc[g] = "scope"
    /\ released(g, guard_backpressure(how), fut)
    /\ release_log' =
           [release_log EXCEPT ![g] = Append(@, guard_backpressure(how))]
    /\ outcome' =
           [outcome EXCEPT ![g] =
               [left_by |-> how,
                raised |-> guard_raised(how,
                    release_result(g, guard_backpressure(how), fut).raised)]]
    /\ gpc' = [gpc EXCEPT ![g] = "exited"]
    /\ UNCHANGED pc

\* the task is cancelled while acquire waits at line 140: CancelledError
\* passes the except clause and the finally clause calls release, lines
\* 186-187, for an id that is still queued
resource_cancel(g) ==
    /\ gpc[g] = "acquire"
    /\ fut[g] = "pending"
    /\ released(g, FALSE, cancelled_futures(g))
    /\ pc' = [pc EXCEPT ![g] = "idle"]
    /\ release_log' = [release_log EXCEPT ![g] = Append(@, FALSE)]
    /\ outcome' =
           [outcome EXCEPT ![g] =
               [left_by |-> "cancelled",
                raised |-> IF release_result(g, FALSE, cancelled_futures(g)).raised
                           THEN "InvalidStateError" ELSE "CancelledError"]]
    /\ gpc' = [gpc EXCEPT ![g] = "exited"]

---------------------------------------------------------------------------
(* Spec: any callers of acquire and release *)

Init ==
    /\ \E cfg \in Configs : constructed(cfg, Ids)
    /\ gpc = <<>>
    /\ release_log = <<>>
    /\ outcome = <<>>
    /\ tasks = <<>>

Acquire == \E id \in Ids : acquire(id) /\ UNCHANGED <<guard_vars, tasks>>

Resume == \E id \in Ids : resume(id) /\ UNCHANGED <<guard_vars, tasks>>

Release ==
    \E id \in Ids, backpressure \in BOOLEAN :
        release(id, backpressure) /\ UNCHANGED <<guard_vars, tasks>>

Cancel == \E id \in Ids : cancel(id) /\ UNCHANGED <<guard_vars, tasks>>

Next == Acquire \/ Resume \/ Release \/ Cancel

Spec == Init /\ [][Next]_vars

---------------------------------------------------------------------------
(* SpecNoCancel: callers of acquire and release that are never cancelled *)

NextNoCancel == Acquire \/ Resume \/ Release

SpecNoCancel == Init /\ [][NextNoCancel]_vars

---------------------------------------------------------------------------
(* SpecLive: SpecNoCancel with callers that release what they were granted: *)
(* while identifiers are in flying, the holder of one of them calls        *)
(* release for it, with either backpressure value, after finitely many     *)
(* steps.  This is less than "every identifier that enters flying is       *)
(* eventually released" asks of the callers.  Such a release stays enabled *)
(* until one is taken, so weak fairness states it: SpecLive spells out     *)
(* WF_vars(ReleaseFlying) as []<>(~ENABLED <<ReleaseFlying>>_vars) \/       *)
(* []<><<ReleaseFlying>>_vars, with flying # {} for the ENABLED, which is  *)
(* what ReleaseFlyingEnabled states.  A request can only be queued while   *)
(* concurrency < NumIds, so SpecLive draws max_concurrency from the lower  *)
(* part of its range.                                                      *)

LiveConfigs == {cfg \in Configs : cfg.max_concurrency <= LiveMaxConcurrency}

InitLive ==
    /\ \E cfg \in LiveConfigs : constructed(cfg, Ids)
    /\ gpc = <<>>
    /\ release_log = <<>>
    /\ outcome = <<>>
    /\ tasks = <<>>

ReleaseFlying ==
    \E id \in flying, backpressure \in BOOLEAN :
        release(id, backpressure) /\ UNCHANGED <<guard_vars, tasks>>

\* a release of a flying id is possible, and changes the state, exactly
\* when flying is not empty
ReleaseFlyingEnabled == (ENABLED <<ReleaseFlying>>_vars) <=> (flying # {})

SpecLive ==
    /\ InitLive
    /\ [][NextNoCancel]_vars
    /\ ([]<>(flying = {}) \/ []<><<ReleaseFlying>>_vars)

---------------------------------------------------------------------------
(* SpecInit: the constructor, called with any configuration *)

InitCalled ==
    /\ \E cfg \in Configs : init_called(cfg, Ids)
    /\ gpc = <<>>
    /\ release_log = <<>>
    /\ outcome = <<>>
    /\ tasks = <<>>

Construct == init /\ UNCHANGED <<guard_vars, tasks>>

NextInit == Construct

SpecInit == InitCalled /\ [][NextInit]_vars

---------------------------------------------------------------------------
(* SpecGuard: every caller goes through resource() *)

InitGuard ==
    /\ \E cfg \in Configs : constructed(cfg, Ids)
    /\ gpc = [g \in Ids |-> "out"]
    /\ release_log = [g \in Ids |-> <<>>]
    /\ outcome = [g \in Ids |-> [left_by |-> "none", raised |-> "nothing"]]
    /\ tasks = <<>>

GuardEnter == \E g \in Ids : resource_enter(g) /\ UNCHANGED tasks

GuardResume == \E g \in Ids : resource_resume(g) /\ UNCHANGED tasks

GuardExit ==
    \E g \in Ids, how \in ExitKinds : resource_exit(g, how) /\ UNCHANGED tasks

GuardCancel == \E g \in Ids : resource_cancel(g) /\ UNCHANGED tasks

NextGuard == GuardEnter \/ GuardResume \/ GuardExit \/ GuardCancel

SpecGuard == InitGuard /\ [][NextGuard]_vars

---------------------------------------------------------------------------
(* SpecMaxConcurrency and SpecMinConcurrency: the harness of               *)
(* test_max_concurrency and test_min_concurrency.  All acquire tasks are   *)
(* created up front and start in creation order; then admitted requests    *)
(* are released one at a time, in any order.  A release only needs its id  *)
(* in _flying, so it is enabled from the moment of admission: the wake-up  *)
(* of the admitted task changes nothing of the limiter and is left out.    *)

\* request_ids = [f"req{i}" for i in range(20)]
NumRequests == 20

RequestIds == 1..NumRequests

\* SawtoothConfig(starting_concurrency=1, max_concurrency=10, step_size=1)
MaxConcurrencyConfig == SawtoothConfig(10, 1, 1, <<19, 20>>, <<1>>)

\* SawtoothConfig(starting_concurrency=5, max_concurrency=10, step_size=1)
MinConcurrencyConfig == SawtoothConfig(10, 1, 1, <<19, 20>>, <<5>>)

harness_created(cfg) ==
    /\ constructed(cfg, RequestIds)
    /\ tasks = [i \in RequestIds |-> "created"]
    /\ gpc = <<>>
    /\ release_log = <<>>
    /\ outcome = <<>>

\* the next task in creation order runs acquire up to its return or await
task_acquire(id) ==
    /\ tasks[id] = "created"
    /\ \A j \in RequestIds : j < id => tasks[j] # "created"
    /\ acquire(id)
    /\ tasks' = [tasks EXCEPT ![id] = "started"]
    /\ UNCHANGED guard_vars

\* sawtooth.release(coros[f], backpressure) and del coros[f], once every
\* task has been started
task_release(id, backpressure) ==
    /\ \A j \in RequestIds : tasks[j] # "created"
    /\ tasks[id] = "started"
    /\ id \in flying
    /\ release(id, backpressure)
    /\ tasks' = [tasks EXCEPT ![id] = "released"]
    /\ UNCHANGED guard_vars

\* len(coros) == 0: the loop of the test has ended
all_released == \A id \in RequestIds : tasks[id] = "released"

InitMaxConcurrency == harness_created(MaxConcurrencyConfig)

InitMinConcurrency == harness_created(MinConcurrencyConfig)

TaskAcquire == \E id \in RequestIds : task_acquire(id)

TaskReleaseSuccess == \E id \in RequestIds : task_release(id, FALSE)

TaskReleaseBackpressure == \E id \in RequestIds : task_release(id, TRUE)

NextMaxConcurrency == TaskAcquire \/ TaskReleaseSuccess

NextMinConcurrency == TaskAcquire \/ TaskReleaseBackpressure

SpecMaxConcurrency == InitMaxConcurrency /\ [][NextMaxConcurrency]_vars

SpecMinConcurrency == InitMinConcurrency /\ [][NextMinConcurrency]_vars

---------------------------------------------------------------------------
(* Claims checked under Spec *)

\* A step that is release(id, b) takes id out of flying, unless id was also
\* queued and is promoted again by the same call: every release(id, b) step
\* satisfies this, which is cheap to test before release(id, b) itself.
leaves_flying(id) ==
    id \notin flying \/ id \notin flying' \/ id \in SeqToSet(waiters)

\* C1: acquire(id) of an id that is not outstanding adds id to flying and
\* returns without suspending when |flying| < concurrency; otherwise it
\* appends (id, fresh pending future) at the tail of waiters and suspends.
\* In both cases concurrency, threshold and ignored are unchanged.
C1_AcquireAdmitsOrQueues ==
    [][\A id \in Ids :
        acquire(id) =>
            /\ Cardinality(flying) < concurrency =>
                 /\ flying' = flying \cup {id}
                 /\ waiters' = waiters
                 /\ pc'[id] = "idle"
                 /\ fut'[id] = "none"
            /\ Cardinality(flying) >= concurrency =>
                 /\ flying' = flying
                 /\ waiters' = waiters \o <<id>>
                 /\ fut[id] = "none" /\ fut'[id] = "pending"
                 /\ pc'[id] = "await"
            /\ concurrency' = concurrency
            /\ sshthresh' = sshthresh
            /\ ignored' = ignored]_vars

\* C1 witness: the limiter is full, one caller was admitted at once and
\* another is suspended on its pending future at the tail of the queue
C1_Witness ==
    /\ Cardinality(flying) = concurrency
    /\ \E a \in flying : pc[a] = "idle" /\ fut[a] = "none"
    /\ Len(waiters) >= 1
    /\ pc[waiters[Len(waiters)]] = "await"
    /\ fut[waiters[Len(waiters)]] = "pending"

\* C2: waiters are promoted in FIFO order: in every step, when a queued
\* request b enters flying, every request queued before b enters flying in
\* that step too, and requests that stay queued keep their order, with new
\* requests only behind them.
C2_FifoPromotion ==
    [][/\ \A i, j \in DOMAIN waiters :
            (i < j /\ waiters[j] \in flying') =>
                (waiters[i] \in flying' /\ waiters[i] \notin SeqToSet(waiters'))
       /\ \E k \in 0..Len(waiters) :
            /\ Len(waiters') >= Len(waiters) - k
            /\ SubSeq(waiters', 1, Len(waiters) - k)
                   = SubSeq(waiters, k + 1, Len(waiters))
            /\ \A i \in 1..k : waiters[i] \in flying']_vars

\* C2 witness: the head of a queue of two was promoted (its future is set,
\* its caller not yet resumed) while the request queued behind it still waits
C2_Witness ==
    /\ \E a \in flying : pc[a] = "await" /\ fut[a] = "done"
    /\ Len(waiters) >= 1
    /\ fut[waiters[1]] = "pending"

\* the step is a call of release; the ids that left flying are tried first
is_release ==
    \/ \E r \in flying \ flying', b \in BOOLEAN : release(r, b)
    \/ \E r \in Ids, b \in BOOLEAN : release(r, b)

\* C3: a request queued by acquire stays suspended until a release promotes
\* it: its caller leaves the await only with the future set by a release
\* step that moved the id into flying (or by being cancelled from outside);
\* a queued id moves from waiters into flying only in a release step, never
\* in an acquire or any other step; and at limit 1 with one flying operation
\* and one waiter, a success release of the flying operation admits the
\* waiter in that same step.
C3_PromotionOnlyByRelease ==
    [][/\ \A w \in Ids :
            (pc[w] = "await" /\ fut[w] = "pending") =>
                \/ pc'[w] = "await" /\ fut'[w] = "pending" /\ w \notin flying'
                \/ /\ pc'[w] = "await" /\ fut'[w] = "done" /\ w \in flying'
                   /\ is_release
                \/ cancel(w)
       /\ \A w \in SeqToSet(waiters) :
            w \in flying' =>
                /\ is_release
                /\ \A a \in Ids : ~acquire(a) /\ ~resume(a) /\ ~cancel(a)
       /\ \A f, w \in Ids :
            (/\ concurrency = 1 /\ flying = {f} /\ waiters = <<w>>
             /\ leaves_flying(f) /\ release(f, FALSE)) =>
                /\ w \in flying'
                /\ waiters' = <<>>
                /\ fut[w] = "pending" => fut'[w] = "done"]_vars

\* C3 witness: the only request in flight is one that was queued and then
\* woken by the release of the operation that held the single slot
C3_Witness ==
    /\ starting_concurrency(config) = 1
    /\ \E w \in Ids : flying = {w} /\ pc[w] = "await" /\ fut[w] = "done"
    /\ waiters = <<>>

\* C4: min_concurrency <= concurrency <= max_concurrency in every reachable
\* state.
C4_ConcurrencyClamped ==
    /\ config.min_concurrency <= concurrency
    /\ concurrency <= config.max_concurrency

\* C4 witness: after a reduction (threshold below its initial value) the
\* limit has grown back to max_concurrency
C4_Witness ==
    /\ sshthresh < config.max_concurrency
    /\ concurrency = config.max_concurrency

\* the real number min(max, max(c, min(n + step + 1, g))) of the claim,
\* times c: g is c + step in slow start and c + step / c otherwise
SpecIncreaseTimesC(c, n, ssh, step, max) ==
    LET g == IF n < ssh THEN (c + step) * c ELSE c * c + step
    IN  Min(max * c, Max(c * c, Min((n + step + 1) * c, g)))

\* C5: release(id, backpressure=false) of a flying id sets concurrency to
\* ceil(min(max_concurrency, max(c, min(n + step_size + 1, g)))), with g =
\* c + step_size when n < threshold and c + step_size / c otherwise (k is the
\* ceiling of x when k - 1 < x <= k); when the limiter was exactly full
\* (n = c - 1) and n < threshold the result is min(c + step_size,
\* max_concurrency).
C5_IncreaseFormula ==
    [][\A id \in flying :
        (leaves_flying(id) /\ release(id, FALSE)) =>
            LET c == concurrency
                n == Cardinality(flying) - 1
                x == SpecIncreaseTimesC(c, n, sshthresh, config.step_size,
                                        config.max_concurrency)
            IN  /\ (concurrency' - 1) * c < x
                /\ x <= concurrency' * c
                /\ (n = c - 1 /\ n < sshthresh) =>
                     concurrency' = Min(c + config.step_size,
                                        config.max_concurrency)]_vars

\* C5 witness: the limit was raised above the threshold of an earlier
\* reduction, with at least threshold operations still in flight (the
\* congestion-avoidance regime)
C5_Witness ==
    /\ sshthresh < config.max_concurrency
    /\ concurrency > sshthresh
    /\ concurrency >= 2
    /\ config.step_size >= 2
    /\ Cardinality(flying) >= sshthresh

\* C6: release(id, backpressure=true) of a flying id that is not ignored
\* sets threshold to floor(max(min_concurrency, c * backoff_factor)),
\* concurrency to that threshold, and ignored to flying without id.
C6_ReductionFormula ==
    [][\A id \in flying \ ignored :
        (leaves_flying(id) /\ release(id, TRUE)) =>
            LET num == config.backoff_factor[1]
                den == config.backoff_factor[2]
                x == Max(config.min_concurrency * den, concurrency * num)
            IN  /\ sshthresh' * den <= x
                /\ x < (sshthresh' + 1) * den
                /\ concurrency' = sshthresh'
                /\ ignored' = flying \ {id}]_vars

\* C6 witness: a reduction happened with other operations in flight, which
\* are now all ignored
C6_Witness ==
    /\ sshthresh < config.max_concurrency
    /\ concurrency = sshthresh
    /\ ignored # {}
    /\ ignored = flying

\* C7: an identifier that was in flying at the moment of a reduction does
\* not trigger a reduction: its release with backpressure=true leaves
\* concurrency and threshold unchanged, whatever reductions other
\* identifiers triggered since.
C7_Debounce ==
    [][\A id \in exempt :
        (leaves_flying(id) /\ release(id, TRUE)) =>
            (concurrency' = concurrency /\ sshthresh' = sshthresh)]_vars

\* C7 witness: an identifier that was in flight at a reduction has been
\* released, while another such identifier still flies beside a newer one
\* that can trigger a further reduction
C7_Witness ==
    /\ exempt # {}
    /\ exempt \subseteq flying
    /\ flying \ exempt # {}
    /\ sshthresh < config.max_concurrency
    /\ concurrency > config.min_concurrency

---------------------------------------------------------------------------
(* Claims checked under SpecMaxConcurrency and SpecMinConcurrency *)

\* C8: with starting_concurrency=1, max_concurrency=10, step_size=1 and 20
\* requests submitted up front, each released with backpressure=false after
\* it was admitted, in any order: concurrency never exceeds 10 and is
\* exactly 10 once all 20 are released.
C8_UpperClamp ==
    /\ concurrency <= 10
    /\ all_released => concurrency = 10

\* C8 witness: all 20 requests were admitted and released, nothing is left
\* in flight or queued, and the limit stands at the maximum
C8_Witness ==
    /\ all_released
    /\ flying = {} /\ waiters = <<>>
    /\ concurrency = 10

\* C9: with starting_concurrency=5, max_concurrency=10, min_concurrency=1,
\* backoff_factor=0.95 and 20 requests submitted up front, each released
\* with backpressure=true after it was admitted, in any order: concurrency
\* never drops below 1 and is exactly 1 once all 20 are released.
C9_LowerClamp ==
    /\ concurrency >= 1
    /\ all_released => concurrency = 1

\* C9 witness: all 20 requests were admitted and released with
\* backpressure, and the limit and the threshold stand at the minimum
C9_Witness ==
    /\ all_released
    /\ flying = {} /\ waiters = <<>>
    /\ concurrency = 1 /\ sshthresh = 1

---------------------------------------------------------------------------
(* Claims checked under SpecGuard *)

\* C10: however the guarded scope is left after admission (normal end,
\* backpressure signal, any other exception), release was called exactly
\* once for the guard's id, with backpressure=true exactly for the
\* backpressure signal; after the backpressure signal and after a normal end
\* nothing is raised to the caller, and any other exception reaches the
\* caller.
C10_GuardExit ==
    \A g \in DOMAIN gpc :
        /\ gpc[g] = "scope" => release_log[g] = <<>>
        /\ (gpc[g] = "exited" /\ outcome[g].left_by \in ExitKinds) =>
             /\ release_log[g] = <<outcome[g].left_by = "backpressure">>
             /\ outcome[g].raised =
                    IF outcome[g].left_by = "exception" THEN "exception"
                    ELSE "nothing"

\* the part of C10 that holds whatever the queue contains: the number of
\* release calls and their backpressure argument
GuardReleaseCalls ==
    \A g \in DOMAIN gpc :
        /\ gpc[g] = "scope" => release_log[g] = <<>>
        /\ (gpc[g] = "exited" /\ outcome[g].left_by \in ExitKinds) =>
             release_log[g] = <<outcome[g].left_by = "backpressure">>

---------------------------------------------------------------------------
(* Claims checked under SpecInit *)

\* the starting value the configuration asks for: the configured one, or
\* floor((max_concurrency - min_concurrency) / 2) when it is omitted
requested_start ==
    IF config.starting_concurrency # None
    THEN config.starting_concurrency[1]
    ELSE (config.max_concurrency - config.min_concurrency) \div 2

\* the constraints of the configuration that are violated, numbered in the
\* order starting range, min > 0, min < max, backoff
violated_constraints ==
    {k \in 1..4 :
        \/ k = 1 /\ ~(/\ config.min_concurrency <= requested_start
                      /\ requested_start <= config.max_concurrency)
        \/ k = 2 /\ ~(config.min_concurrency > 0)
        \/ k = 3 /\ ~(config.min_concurrency < config.max_concurrency)
        \/ k = 4 /\ ~(/\ 0 < config.backoff_factor[1]
                      /\ config.backoff_factor[1] < config.backoff_factor[2])}

\* C11: construction succeeds if and only if min_concurrency > 0,
\* min_concurrency < max_concurrency, 0 < backoff_factor < 1 and
\* min_concurrency <= s <= max_concurrency for the requested start s; when
\* it fails, flying, ignored, waiters, concurrency and threshold were never
\* created; when it succeeds, flying, ignored and waiters are empty and
\* concurrency = s.
C11_Construction ==
    error # "not called" =>
        /\ (error = "ok") <=> (violated_constraints = {})
        /\ error # "ok" =>
             /\ flying = Unset /\ ignored = Unset /\ waiters = Unset
             /\ concurrency = Unset /\ sshthresh = Unset
        /\ error = "ok" =>
             /\ flying = {} /\ ignored = {} /\ waiters = <<>>
             /\ concurrency = requested_start

\* C11 witness: a construction that failed on the backoff factor alone and
\* left no limiter state
C11_Witness ==
    /\ error \notin {"not called", "ok"}
    /\ violated_constraints = {4}
    /\ flying = Unset /\ concurrency = Unset

\* C12: the four errors are pairwise distinct, and a failed construction
\* reports the error of the first violated constraint in the order starting
\* range, min > 0, min < max, backoff (so the error of the only violated
\* constraint when there is just one).
C12_ErrorPerCase ==
    LET errors == <<StartingError, MinimumError, MinimumMaximumError,
                    BackoffError>>
    IN  /\ \A i, j \in 1..4 : i # j => errors[i] # errors[j]
        /\ (error # "not called" /\ violated_constraints # {}) =>
             \E k \in violated_constraints :
                 /\ \A j \in violated_constraints : k <= j
                 /\ error = errors[k]

\* C12 witness: a configuration violating min > 0 and the backoff range, but
\* not the starting range, failed with the error of min > 0
C12_Witness ==
    /\ violated_constraints = {2, 4}
    /\ error = MinimumError

\* C17 as stated: every configuration that omits starting_concurrency and
\* has 0 < min_concurrency < max_concurrency and 0 < backoff_factor < 1 is
\* constructed, with concurrency = floor((max_concurrency -
\* min_concurrency) / 2) inside [min_concurrency, max_concurrency].
C17_DefaultStart ==
    (/\ error # "not called"
     /\ config.starting_concurrency = None
     /\ violated_constraints \cap {2, 3, 4} = {}) =>
        /\ error = "ok"
        /\ concurrency = (config.max_concurrency - config.min_concurrency) \div 2
        /\ config.min_concurrency <= concurrency
        /\ concurrency <= config.max_concurrency

\* C17 amended: such a configuration is constructed exactly when
\* floor((max_concurrency - min_concurrency) / 2) >= min_concurrency, and
\* then concurrency is that value, inside [min_concurrency,
\* max_concurrency]; otherwise construction fails with the error of the
\* starting range.
C17_DefaultStartAmended ==
    (/\ error # "not called"
     /\ config.starting_concurrency = None
     /\ violated_constraints \cap {2, 3, 4} = {}) =>
        LET s == (config.max_concurrency - config.min_concurrency) \div 2
        IN  IF s >= config.min_concurrency
            THEN /\ error = "ok"
                 /\ concurrency = s
                 /\ config.min_concurrency <= concurrency
                 /\ concurrency <= config.max_concurrency
            ELSE error = StartingError

\* C17 witness: a limiter constructed with the default starting value
C17_Witness ==
    /\ error = "ok"
    /\ config.starting_concurrency = None
    /\ concurrency = (config.max_concurrency - config.min_concurrency) \div 2

---------------------------------------------------------------------------
(* Claims about release, checked under Spec and SpecNoCancel *)

\* the limiter's own state: what release of an id can change
limiter_state == <<concurrency, sshthresh, flying, ignored, waiters>>

\* C13: release(id, b) of an id that is not in flying (never acquired, still
\* queued, or already released) changes none of concurrency, threshold,
\* flying, ignored and waiters and promotes no waiter, for either b.
C13_UnknownReleaseNoOp ==
    [][\A id \in Ids \ flying, b \in BOOLEAN :
        release(id, b) => UNCHANGED limiter_state]_vars

\* the part of C13 that holds while no caller is cancelled: checked under
\* SpecNoCancel, where the state after the call is the state before it
UnknownReleaseNoOpNoCancel ==
    \A id \in Ids \ flying, b \in BOOLEAN :
        LET r == release_result(id, b, fut)
        IN  /\ r.concurrency = concurrency /\ r.sshthresh = sshthresh
            /\ r.flying = flying /\ r.ignored = ignored
            /\ r.waiters = waiters /\ r.fut = fut /\ ~r.raised

\* the promotion step as C14 states it, for a step that is release(id, b):
\* with the concurrency the adjustment left and flying without id, exactly
\* min(|waiters|, max(0, concurrency - |flying|)) waiters leave the front of
\* the queue and enter flying, so that afterwards the queue is empty or
\* the limiter is full
promotes_all_it_can(id) ==
    LET flying1 == flying \ {id}
        k == Min(Len(waiters), Max(0, concurrency' - Cardinality(flying1)))
    IN  /\ waiters' = SubSeq(waiters, k + 1, Len(waiters))
        /\ flying' = flying1 \cup {waiters[i] : i \in 1..k}
        /\ waiters' = <<>> \/ Cardinality(flying') >= concurrency'

\* C14: at the end of every release call, whichever branch was taken,
\* exactly min(|waiters|, max(0, concurrency - |flying|)) waiters are moved
\* from the front of the queue into flying, computed with the values the
\* adjustment step left; so after every release either waiters is empty or
\* |flying| >= concurrency.
C14_PromotionCount ==
    [][\A id \in Ids, b \in BOOLEAN :
        release(id, b) => promotes_all_it_can(id)]_vars

\* the same statement, which holds while no caller is cancelled: checked
\* under SpecNoCancel
PromotionCountNoCancel ==
    [][\A id \in Ids, b \in BOOLEAN :
        (leaves_flying(id) /\ release(id, b)) => promotes_all_it_can(id)]_vars

\* C15: threshold is max_concurrency at construction and changes in no step
\* but a backpressure release of a flying identifier that is not ignored
\* (so it is max_concurrency until the first reduction, and acquire, success
\* releases, backpressure releases of ignored identifiers, releases of
\* unknown identifiers and promotions leave it alone); right after such a
\* release threshold = concurrency; and min_concurrency <= threshold <=
\* max_concurrency in every reachable state.
C15_Threshold ==
    /\ sshthresh = config.max_concurrency
    /\ [](/\ config.min_concurrency <= sshthresh
          /\ sshthresh <= config.max_concurrency)
    /\ [][/\ sshthresh' # sshthresh =>
                \E id \in flying \ ignored : release(id, TRUE)
          /\ \A id \in flying \ ignored :
                (leaves_flying(id) /\ release(id, TRUE)) =>
                    sshthresh' = concurrency'
          /\ sshthresh' # sshthresh =>
                /\ \A id \in Ids :
                      /\ ~acquire(id) /\ ~resume(id) /\ ~cancel(id)
                      /\ ~release(id, FALSE)
                      /\ id \in ignored => ~release(id, TRUE)
                /\ \A id \in Ids \ flying, b \in BOOLEAN :
                      ~release(id, b)]_vars

\* C15 witness: after two reductions and a later increase, threshold still
\* stands where the last reduction put it, below max_concurrency and below
\* the limit
C15_Witness ==
    /\ sshthresh < config.max_concurrency
    /\ sshthresh >= config.min_concurrency
    /\ concurrency > sshthresh
    /\ ignored # {}
    /\ waiters # <<>>

\* C16: the entry of a caller that was cancelled while queued is removed
\* from waiters or skipped when popped: no step moves an identifier whose
\* future was cancelled into flying, where no one would release it.
C16_CancelledNeverAdmitted ==
    [][\A w \in Ids : fut[w] = "cancelled" => w \notin flying']_vars

\* C18: an identifier enters flying, by acquire or by promotion inside
\* release, only while |flying| < concurrency, so |flying| <= concurrency
\* right after every admission and |flying| <= max_concurrency in every
\* reachable state; |flying| comes to exceed concurrency only by a
\* reduction, and no step that admits an identifier ends with |flying| above
\* concurrency.
C18_InFlightBound ==
    /\ [](Cardinality(flying) <= config.max_concurrency)
    /\ [][/\ \A id \in Ids \ flying :
                (id \in flying' /\ acquire(id)) =>
                    Cardinality(flying) < concurrency
          /\ flying' \ flying # {} =>
                Cardinality(flying') <= concurrency'
          /\ (/\ Cardinality(flying') > concurrency'
              /\ Cardinality(flying) <= concurrency) =>
                /\ concurrency' < concurrency
                /\ \E id \in flying \ ignored : release(id, TRUE)]_vars

\* C18 witness: a reduction has left more operations in flight than the
\* limit allows, all of them exempt from a further reduction
C18_Witness ==
    /\ Cardinality(flying) > concurrency
    /\ ignored = flying
    /\ sshthresh = concurrency

---------------------------------------------------------------------------
(* Claims checked under SpecNoCancel and SpecLive *)

\* C19: with unique identifiers and no cancellation, whenever waiters is
\* non-empty, |flying| >= concurrency >= 1; so an acquire is admitted at once
\* only when no one is queued, and whenever someone waits at least one
\* operation is in flight.
C19_NoBarging ==
    /\ [](waiters # <<>> =>
            /\ Cardinality(flying) >= concurrency
            /\ concurrency >= 1
            /\ flying # {})
    /\ [][\A id \in Ids \ flying :
            (id \in flying' /\ acquire(id)) => waiters = <<>>]_vars

\* C19 witness: after a reduction two requests wait behind a full limiter
C19_Witness ==
    /\ Len(waiters) >= 2
    /\ Cardinality(flying) >= concurrency
    /\ sshthresh < config.max_concurrency

\* C20: with unique identifiers and no cancellation, if every identifier
\* that enters flying is eventually released (with either backpressure
\* value), every request queued in waiters is eventually moved into flying.
C20_EventualAdmission ==
    \A w \in Ids : (w \in SeqToSet(waiters)) ~> (w \in flying)

\* C20 witness: the limit has been reduced to its minimum while a request
\* was queued, and that request has since been promoted and its caller woken
C20_Witness ==
    /\ sshthresh = config.min_concurrency
    /\ concurrency = config.min_concurrency
    /\ waiters = <<>>
    /\ \E w \in flying : fut[w] = "done" /\ w \notin ignored

===========================================================================
